---- MODULE Spec2Model ----
(***************************************************************************)
(* Upload-and-Generate controller of src/index.js as a state machine.      *)
(*                                                                         *)
(* JavaScript strings are sequences of characters (a character is a one-   *)
(* element TLA+ string; a fixed literal of the source that is only ever    *)
(* compared or concatenated as a whole is kept as one element).  A value   *)
(* that may be null is a set with at most one element: Null is null and    *)
(* Some(x) is x.                                                           *)
(***************************************************************************)
EXTENDS Integers, Sequences, FiniteSets, Bags, TLC

VARIABLES
  state,     \* the state object of index.js:15
  ai,        \* TRUE iff the GoogleGenAI client was constructed (API key present)
  dom,       \* what render() last wrote to the page
  requests,  \* bag of the submissions suspended at their await (timer or provider call)
  reads,     \* bag of the file selections suspended at their await (FileReader or zip)
  ignored,   \* history: TRUE iff the last event was a click on the disabled generate button
  history    \* history kept by SpecCount and SpecOverlap only: the submissions that
             \* entered Loading, the provider calls made, the selection started last

vars == <<state, ai, dom, requests, reads, ignored, history>>

\* ---- bounds of the model ------------------------------------------------
MaxRequests == 2     \* submissions that may be suspended at the same time
MaxReads == 1        \* file selections that may be suspended at the same time
MaxLoads == 2        \* submissions counted by SpecCount
MaxOverlap == 2      \* file selections that may be suspended at the same time in SpecOverlap

\* ---- optional values ------------------------------------------------------
Null == {}
Some(x) == {x}
Get(o) == CHOOSE x \in o : TRUE

\* ---- strings ----------------------------------------------------------------
Whitespace == {" ", "\n", "\t"}

RECURSIVE trimStart(_)
trimStart(s) ==
  IF s # <<>> /\ Head(s) \in Whitespace THEN trimStart(Tail(s)) ELSE s

RECURSIVE trimEnd(_)
trimEnd(s) ==
  IF s # <<>> /\ s[Len(s)] \in Whitespace THEN trimEnd(SubSeq(s, 1, Len(s) - 1)) ELSE s

\* String.prototype.trim
trim(s) == trimEnd(trimStart(s))

lowerChar(c) ==
  CASE c = "Z" -> "z" [] c = "I" -> "i" [] c = "P" -> "p" [] c = "B" -> "b" [] OTHER -> c

\* String.prototype.toLowerCase
toLowerCase(s) == [i \in 1..Len(s) |-> lowerChar(s[i])]

\* String.prototype.endsWith
endsWith(s, suffix) ==
  /\ Len(s) >= Len(suffix)
  /\ SubSeq(s, Len(s) - Len(suffix) + 1, Len(s)) = suffix

\* rel.split('/')[0]
RECURSIVE firstSegment(_)
firstSegment(s) ==
  IF s = <<>> \/ Head(s) = "/" THEN <<>> ELSE <<Head(s)>> \o firstSegment(Tail(s))

\* ---- the GenerationState enumeration ----------------------------------------
IDLE == "IDLE"
LOADING == "LOADING"
SUCCESS == "SUCCESS"
ERROR == "ERROR"
GenerationState == {IDLE, LOADING, SUCCESS, ERROR}

\* ---- file ingestion constants -----------------------------------------------
MAX_SIZE == 10 * 1024 * 1024

ZIP_TYPE == "application/zip"

allowedTypes ==
  { "application/pdf", "application/msword",
    "application/vnd.openxmlformats-officedocument.wordprocessingml.document",
    "text/plain" }

\* ---- messages of the source -------------------------------------------------
MsgTooLarge == <<"File is too large. Maximum size is 10MB.">>
MsgInvalidType ==
  <<"Invalid file type. Please upload PDF, DOC, DOCX, or TXT, or upload a ZIP/folder.">>
MsgOneTooLarge(name) == <<"One of the selected files is too large (max 10MB): ">> \o name
MsgCouldNotProcess == <<"Could not process the selected file(s).">>
MsgJSZipNotLoaded == <<"JSZip not loaded">>
MsgUnknown == <<"An unknown error occurred.">>
MsgSomethingWrong == <<"Something went wrong. Please try again.">>
\* message of the TypeError thrown by state.file.name when state.file is null
MsgNullFile == <<"Cannot read properties of null (reading 'name')">>

demoResponse(name, prompt) ==
  <<"Demo response:\nFile: ">> \o name \o <<"\nPrompt: ">> \o prompt
    \o <<"\n\n(This is a simulated response because no API key was provided.)">>

\* ---- the files a user can pick (File objects of the browser) ----------------
File(name, type, size, rel, bytes) ==
  [name |-> name, type |-> type, size |-> size, webkitRelativePath |-> rel, bytes |-> bytes]

TwoMB == 2 * 1024 * 1024

reportPdf == File(<<"r", ".", "p", "d", "f">>, "application/pdf", TwoMB, <<>>, "R")
bigPdf == File(<<"g", ".", "p", "d", "f">>, "application/pdf", MAX_SIZE + 1, <<>>, "G")
movieMp4 == File(<<"m", ".", "m", "p", "4">>, "video/mp4", TwoMB, <<>>, "M")
bigMp4 == File(<<"m", ".", "m", "p", "4">>, "video/mp4", MAX_SIZE + 1, <<>>, "N")
bigZip == File(<<"B", ".", "Z", "I", "P">>, "", MAX_SIZE + 1, <<>>, "B")
aTxt == File(<<"a">>, "text/plain", MAX_SIZE, <<"f", "/", "a">>, "A")
bTxt == File(<<"b">>, "text/plain", 1024, <<"f", "/", "b">>, "E")
bigTxt == File(<<"c">>, "text/plain", MAX_SIZE + 1, <<"f", "/", "c">>, "C")
xTxt == File(<<"x">>, "text/plain", 1024, <<>>, "X")
yTxt == File(<<"y">>, "text/plain", 1024, <<>>, "Y")

\* the FileLists handed to handleFileSelect
Selections ==
  { <<reportPdf>>, <<bigPdf>>, <<movieMp4>>, <<bigMp4>>, <<bigZip>>,
    <<aTxt, bTxt>>, <<bTxt, bigTxt>> }

\* folder selections alone: with relative paths, with a file over the cap, and
\* without relative paths (files dropped together)
Folders == { <<aTxt, bTxt>>, <<bTxt, bigTxt>>, <<xTxt, yTxt>> }

\* what the user can type or paste into the prompt textarea
Prompts == { <<>>, <<" ">>, <<"S">> }

\* data-prompt values of the sample prompt chips (a missing attribute reads '')
SamplePrompts == { <<>>, <<"S">> }

\* what the provider can answer: response.text
Texts == { <<"t1">>, <<"t2">> }

\* what the provider call can throw: an Error with a message, or a value that is no Error
MsgProvider == <<"API error">>
ProviderFailures == { Some(MsgProvider), Null }

\* message of the DOMException File.arrayBuffer() rejects with
MsgNotReadable == <<"The requested file could not be read">>

\* ---- file encoding ----------------------------------------------------------
\* FileReader.readAsDataURL: data:<type>;base64,<payload>
readAsDataURL(f) == <<"data:", f.type, ";base64", ",", f.bytes>>

\* s.split(',')[1]
RECURSIVE afterComma(_)
afterComma(s) == IF s = <<>> THEN <<>> ELSE IF Head(s) = "," THEN Tail(s) ELSE afterComma(Tail(s))

RECURSIVE untilComma(_)
untilComma(s) ==
  IF s = <<>> \/ Head(s) = "," THEN <<>> ELSE <<Head(s)>> \o untilComma(Tail(s))

fileToBase64(f) == untilComma(afterComma(readAsDataURL(f)))

\* the archive of filesToZipBase64: one entry (path, bytes) per file, in order
RECURSIVE filesToZipBase64(_)
filesToZipBase64(files) ==
  IF files = <<>> THEN <<>>
  ELSE LET f == Head(files)
           path == IF f.webkitRelativePath # <<>> THEN f.webkitRelativePath ELSE f.name
       IN  <<"[">> \o path \o <<":", f.bytes, "]">> \o filesToZipBase64(Tail(files))

\* ---- render -------------------------------------------------------------------
\* JavaScript truthiness of state.error (null and '' are falsy)
truthy(o) == o # Null /\ Get(o) # <<>>

\* mutant: the button tests the prompt as the handler does, without trim()
isButtonDisabled_noTrim(s) ==
  s.file = Null \/ s.prompt = <<>> \/ s.generationState = LOADING

isButtonDisabled(s) ==
  s.file = Null \/ trim(s.prompt) = <<>> \/ s.generationState = LOADING

\* the page after render(), given the state and the page before: the visibility of
\* the two upload views, the controls, the inline error and the result panel (the
\* text of the file name and file size elements, lines 88-89, is left out)
render(s, d) ==
  [ uploadBoxHidden |-> s.file # Null,
    fileDisplayHidden |-> s.file = Null,
    promptDisabled |-> s.file = Null,
    promptValue |-> s.prompt,
    generateDisabled |-> isButtonDisabled(s),
    errorText |-> IF truthy(s.error) THEN Get(s.error) ELSE <<>>,
    errorHidden |-> ~truthy(s.error),
    spinner |-> s.generationState = LOADING,
    resultHidden |-> s.generationState = IDLE,
    resultDisplay |->
      CASE s.generationState = IDLE -> d.resultDisplay
        [] s.generationState = LOADING -> <<"skeleton">>
        [] s.generationState = ERROR ->
             <<"An Error Occurred">> \o (IF truthy(s.error) THEN Get(s.error) ELSE MsgSomethingWrong)
        [] s.generationState = SUCCESS -> s.result ]

\* the page as the markup delivers it, before the first render
markup ==
  [ uploadBoxHidden |-> FALSE, fileDisplayHidden |-> TRUE,
    promptDisabled |-> TRUE, promptValue |-> <<>>, generateDisabled |-> TRUE,
    errorText |-> <<>>, errorHidden |-> TRUE, spinner |-> FALSE, resultHidden |-> TRUE,
    resultDisplay |-> <<>> ]

\* ---- initial state ------------------------------------------------------------
state0 ==
  [file |-> Null, prompt |-> <<>>, result |-> <<>>, error |-> Null, generationState |-> IDLE]

\* nothing submitted, no call made, no selection started
history0 == [loads |-> 0, calls |-> 0, newest |-> Null]

Init ==
  /\ state = state0
  /\ ai \in BOOLEAN
  /\ dom = render(state0, markup)
  /\ requests = EmptyBag
  /\ reads = EmptyBag
  /\ ignored = FALSE
  /\ history = history0

\* bag b with one copy of x added, and with one copy of x removed
Put(b, x) == b (+) SetToBag({x})
Take(b, x) == b (-) SetToBag({x})

\* ---- handleFileSelect ---------------------------------------------------------
isZip(f) == endsWith(toLowerCase(f.name), <<".", "z", "i", "p">>) \/ f.type = ZIP_TYPE

\* the first file of the list that is over the cap (the for loop of line 187)
RECURSIVE firstTooLarge(_)
firstTooLarge(files) ==
  IF files = <<>> THEN Null
  ELSE IF Head(files).size > MAX_SIZE THEN Some(Head(files))
  ELSE firstTooLarge(Tail(files))

\* mutant: the MIME type of a single document is not checked
validationError_noTypeCheck(files) ==
  IF Len(files) > 1
    THEN IF firstTooLarge(files) # Null
           THEN Some(MsgOneTooLarge(Get(firstTooLarge(files)).name))
           ELSE Null
    ELSE LET f == files[1]
         IN  IF isZip(f) THEN Null
             ELSE IF f.size > MAX_SIZE THEN Some(MsgTooLarge)
             ELSE Null

\* the message of the Error thrown before the first await, Null when none is thrown
validationError(files) ==
  IF Len(files) > 1
    THEN IF firstTooLarge(files) # Null
           THEN Some(MsgOneTooLarge(Get(firstTooLarge(files)).name))
           ELSE Null
    ELSE LET f == files[1]
         IN  IF isZip(f) THEN Null
             ELSE IF f.size > MAX_SIZE THEN Some(MsgTooLarge)
             ELSE IF f.type \notin allowedTypes THEN Some(MsgInvalidType)
             ELSE Null

\* validationError of every selection the model offers, evaluated once
validationErrors == [files \in Selections \cup Folders |-> validationError(files)]

\* mutant: the archive is named after the whole relative path of the first file
folderName_wholePath(files) ==
  LET rel == files[1].webkitRelativePath
  IN  IF rel # <<>> THEN rel ELSE <<"archive">>

\* lines 192-195
folderName(files) ==
  LET rel == files[1].webkitRelativePath
  IN  IF rel # <<>> /\ firstSegment(rel) # <<>> THEN firstSegment(rel) ELSE <<"archive">>

\* the record stored in state.file once the content is encoded
fileRecord(files) ==
  IF Len(files) > 1
    THEN [name |-> folderName(files) \o <<".zip">>, type |-> ZIP_TYPE, size |-> 0,
          base64 |-> filesToZipBase64(files)]
    ELSE LET f == files[1]
         IN  IF isZip(f)
               THEN [name |-> f.name, type |-> ZIP_TYPE, size |-> f.size,
                     base64 |-> fileToBase64(f)]
               ELSE [name |-> f.name,
                     type |-> IF f.type # "" THEN f.type ELSE "application/octet-stream",
                     size |-> f.size, base64 |-> fileToBase64(f)]

\* mutant: a finished selection stores the file and leaves phase, result and error
selected_keepsPhase(s, files) == [s EXCEPT !.file = Some(fileRecord(files))]

\* lines 196-232: the selection succeeded
selected(s, files) ==
  [s EXCEPT !.file = Some(fileRecord(files)), !.result = <<>>, !.error = Null,
            !.generationState = IDLE]

\* the catch block, lines 233-239
selectFailed(s, message) ==
  [s EXCEPT !.error = Some(message), !.file = Null, !.generationState = ERROR]

\* the message the catch block derives from what an await rejected with:
\* FileReader.onerror rejects with a ProgressEvent (no Error), arrayBuffer
\* with a DOMException (an Error)
readErrorMessage(files) == IF Len(files) > 1 THEN MsgNotReadable ELSE MsgCouldNotProcess

\* the dialog was cancelled: line 180
handleFileSelectEmpty ==
  /\ ignored' = FALSE
  /\ UNCHANGED <<state, ai, history, dom, requests, reads>>

\* a validation error is thrown and caught before the handler awaits anything
handleFileSelectInvalid(files) ==
  /\ files # <<>>
  /\ validationErrors[files] # Null
  /\ state' = selectFailed(state, Get(validationErrors[files]))
  /\ dom' = render(state', dom)
  /\ ignored' = FALSE
  /\ UNCHANGED <<ai, history, requests, reads>>

\* filesToZipBase64 throws at once when the JSZip script is not on the page
handleFileSelectNoJSZip(files) ==
  /\ Len(files) > 1
  /\ validationErrors[files] = Null
  /\ state' = selectFailed(state, MsgJSZipNotLoaded)
  /\ dom' = render(state', dom)
  /\ ignored' = FALSE
  /\ UNCHANGED <<ai, history, requests, reads>>

\* the handler suspends at await fileToBase64(f) or await filesToZipBase64(files),
\* with fewer than cap selections suspended already
startRead(files, cap) ==
  /\ files # <<>>
  /\ validationErrors[files] = Null
  /\ BagCardinality(reads) < cap
  /\ reads' = Put(reads, files)
  /\ ignored' = FALSE
  /\ UNCHANGED <<state, ai, dom, requests>>

handleFileSelectAwait(files) == startRead(files, MaxReads) /\ UNCHANGED history

\* the same step where selections may overlap, with the selection recorded as the
\* one started last
handleFileSelectOverlapping(files) ==
  /\ startRead(files, MaxOverlap)
  /\ history' = [history EXCEPT !.newest = Some(files)]

\* the await of a suspended selection resolves
handleFileSelectResume(files) ==
  /\ BagIn(files, reads)
  /\ state' = selected(state, files)
  /\ dom' = render(state', dom)
  /\ reads' = Take(reads, files)
  /\ ignored' = FALSE
  /\ UNCHANGED <<ai, history, requests>>

\* the await of a suspended selection rejects
handleFileSelectReject(files) ==
  /\ BagIn(files, reads)
  /\ state' = selectFailed(state, readErrorMessage(files))
  /\ dom' = render(state', dom)
  /\ reads' = Take(reads, files)
  /\ ignored' = FALSE
  /\ UNCHANGED <<ai, history, requests>>

\* ---- handleFileRemove ----------------------------------------------------------
removed(s) ==
  LET t == [s EXCEPT !.file = Null, !.prompt = <<>>, !.result = <<>>]
  IN  IF ai THEN [t EXCEPT !.error = Null, !.generationState = IDLE] ELSE t

\* mutant: removing the file drops the suspended submissions
handleFileRemove_cancels ==
  /\ ~dom.fileDisplayHidden
  /\ state' = removed(state)
  /\ dom' = render(state', dom)
  /\ requests' = EmptyBag
  /\ ignored' = FALSE
  /\ UNCHANGED <<ai, history, reads>>

\* the remove button sits in the file display, shown only while a file is held
handleFileRemove ==
  /\ ~dom.fileDisplayHidden
  /\ state' = removed(state)
  /\ dom' = render(state', dom)
  /\ ignored' = FALSE
  /\ UNCHANGED <<ai, history, requests, reads>>

\* ---- prompt editing -----------------------------------------------------------
\* mutant: the input listener stores the prompt and does not render
promptInput_noRender(value) ==
  /\ ~dom.promptDisabled
  /\ state' = [state EXCEPT !.prompt = value]
  /\ ignored' = FALSE
  /\ UNCHANGED <<ai, history, dom, requests, reads>>

\* the input listener of the textarea, lines 307-310
promptInput(value) ==
  /\ ~dom.promptDisabled
  /\ state' = [state EXCEPT !.prompt = value]
  /\ dom' = render(state', dom)
  /\ ignored' = FALSE
  /\ UNCHANGED <<ai, history, requests, reads>>

\* a sample prompt chip is clicked, lines 328-337
samplePromptClick(p) ==
  /\ state' = [state EXCEPT !.prompt = p]
  /\ dom' = render(state', [dom EXCEPT !.promptValue = p])
  /\ ignored' = FALSE
  /\ UNCHANGED <<ai, history, requests, reads>>

\* ---- handleSubmit -------------------------------------------------------------
\* lines 276-277: what the provider call is made with (name: history only)
requestOf(s) ==
  [mimeType |-> Get(s.file).type, data |-> Get(s.file).base64, text |-> s.prompt,
   name |-> Get(s.file).name]

\* mutant: entering Loading does not clear the result
submitted_keepsResult(s) == [s EXCEPT !.generationState = LOADING, !.error = Null]

\* lines 261-263
submitted(s) == [s EXCEPT !.generationState = LOADING, !.result = <<>>, !.error = Null]

\* lines 270-271 and 284-285
succeeded(s, text) == [s EXCEPT !.result = text, !.generationState = SUCCESS]

\* mutant: the catch block sets the phase and forgets the message
submitFailed_noMessage(s, thrown) == [s EXCEPT !.generationState = ERROR]

\* the catch block, lines 286-290: thrown is the message of the Error, Null for no Error
submitFailed(s, thrown) ==
  [s EXCEPT !.error = Some(IF thrown # Null THEN Get(thrown) ELSE MsgUnknown),
            !.generationState = ERROR]

\* the guard of line 259
submitGuard(s) == s.file # Null /\ s.prompt # <<>>

\* a click on the disabled generate button submits nothing
generateClickDisabled ==
  /\ dom.generateDisabled
  /\ ignored' = TRUE
  /\ UNCHANGED <<state, ai, history, dom, requests, reads>>

\* the form is submitted: handleSubmit up to its await
submit ==
  /\ ~dom.generateDisabled
  /\ IF submitGuard(state)
       THEN /\ BagCardinality(requests) < MaxRequests
            /\ state' = submitted(state)
            /\ dom' = render(state', dom)
            /\ requests' = Put(requests, requestOf(state))
       ELSE UNCHANGED <<state, dom, requests>>
  /\ ignored' = FALSE
  /\ UNCHANGED <<ai, reads>>

handleSubmit == submit /\ UNCHANGED history

\* mutant: the demo branch makes a provider call as well
counted_demoCalls(h, live) == [h EXCEPT !.loads = @ + 1, !.calls = @ + 1]

\* a submission passes line 261 and, with a client, goes on to the call of line 279
\* without suspending; the demo branch (lines 267-274) makes no call
counted(h, live) == [h EXCEPT !.loads = @ + 1, !.calls = @ + (IF live THEN 1 ELSE 0)]

\* the same step with the submission and its call counted
handleSubmitCounted ==
  /\ submit
  /\ IF submitGuard(state)
       THEN history.loads < MaxLoads /\ history' = counted(history, ai)
       ELSE UNCHANGED history

\* lines 269-272 after the timer: state.file.name throws a TypeError when state.file is null
demoResumed(s) ==
  IF s.file = Null
    THEN submitFailed(s, Some(MsgNullFile))
    ELSE succeeded(s, demoResponse(Get(s.file).name, s.prompt))

\* demo mode: the 700 ms timer of a suspended submission fires (the timers fire oldest
\* first; the continuation reads nothing of the request, so the order leaves no trace)
demoTimeout(r) ==
  /\ ~ai
  /\ BagIn(r, requests)
  /\ state' = demoResumed(state)
  /\ dom' = render(state', dom)
  /\ requests' = Take(requests, r)
  /\ ignored' = FALSE
  /\ UNCHANGED <<ai, history, reads>>

\* live mode: the provider call of a suspended submission returns text
generateContentResolves(r, text) ==
  /\ ai
  /\ BagIn(r, requests)
  /\ state' = succeeded(state, text)
  /\ dom' = render(state', dom)
  /\ requests' = Take(requests, r)
  /\ ignored' = FALSE
  /\ UNCHANGED <<ai, history, reads>>

\* mutant: the catch block of handleSubmit also drops the file
generateContentRejects_dropsFile(r, thrown) ==
  /\ ai
  /\ BagIn(r, requests)
  /\ state' = [submitFailed(state, thrown) EXCEPT !.file = Null]
  /\ dom' = render(state', dom)
  /\ requests' = Take(requests, r)
  /\ ignored' = FALSE
  /\ UNCHANGED <<ai, history, reads>>

\* live mode: the provider call of a suspended submission throws
generateContentRejects(r, thrown) ==
  /\ ai
  /\ BagIn(r, requests)
  /\ state' = submitFailed(state, thrown)
  /\ dom' = render(state', dom)
  /\ requests' = Take(requests, r)
  /\ ignored' = FALSE
  /\ UNCHANGED <<ai, history, reads>>

\* ---- the specification --------------------------------------------------------
handleFileSelect(files) ==
  \/ handleFileSelectInvalid(files)
  \/ handleFileSelectNoJSZip(files)
  \/ handleFileSelectAwait(files)

\* the selections that pass validation, and the requests a submission can make of them
Readable == {files \in Selections \cup Folders : validationErrors[files] = Null}
Requests ==
  { requestOf([state0 EXCEPT !.file = Some(fileRecord(files)), !.prompt = p]) :
      files \in Readable, p \in Prompts \cup SamplePrompts }

\* every step but the start of a selection and the submission
Others ==
  \/ handleFileSelectEmpty
  \/ \E files \in Readable : handleFileSelectResume(files)
  \/ \E files \in Readable : handleFileSelectReject(files)
  \/ handleFileRemove
  \/ \E value \in Prompts : promptInput(value)
  \/ \E p \in SamplePrompts : samplePromptClick(p)
  \/ generateClickDisabled
  \/ \E r \in Requests : demoTimeout(r)
  \/ \E r \in Requests, text \in Texts : generateContentResolves(r, text)
  \/ \E r \in Requests, thrown \in ProviderFailures : generateContentRejects(r, thrown)

Next ==
  \/ \E files \in Selections : handleFileSelect(files)
  \/ handleSubmit
  \/ Others

Spec == Init /\ [][Next]_vars

\* a suspended submission finishes: its timer fires or its provider call settles
Settle ==
  \/ \E r \in Requests : demoTimeout(r)
  \/ \E r \in Requests, text \in Texts : generateContentResolves(r, text)
  \/ \E r \in Requests, thrown \in ProviderFailures : generateContentRejects(r, thrown)

\* the same program offered folder selections only
NextFolder ==
  \/ \E files \in Folders : handleFileSelect(files)
  \/ handleSubmit
  \/ Others

SpecFolder == Init /\ [][NextFolder]_vars

\* the same, where the timer of line 269 fires and the provider call of line 279
\* returns or fails
SpecFair == SpecFolder /\ WF_vars(Settle)

\* the same program with its submissions and provider calls counted
NextCount ==
  \/ \E files \in Selections : handleFileSelect(files)
  \/ handleSubmitCounted
  \/ Others

SpecCount == Init /\ [][NextCount]_vars

\* the same program with up to MaxOverlap selections suspended at the same time
handleFileSelectOverlap(files) ==
  \/ handleFileSelectInvalid(files)
  \/ handleFileSelectNoJSZip(files)
  \/ handleFileSelectOverlapping(files)

NextOverlap ==
  \/ \E files \in Selections : handleFileSelectOverlap(files)
  \/ handleSubmit
  \/ Others

SpecOverlap == Init /\ [][NextOverlap]_vars

\* ---- properties ----------------------------------------------------------------
\* a selection handler finishes: it threw before awaiting, or its await settled
selectionEnds(files) ==
  \/ handleFileSelectInvalid(files)
  \/ handleFileSelectNoJSZip(files)
  \/ handleFileSelectResume(files)
  \/ handleFileSelectReject(files)

selectionFails(files) ==
  \/ handleFileSelectInvalid(files)
  \/ handleFileSelectNoJSZip(files)
  \/ handleFileSelectReject(files)

\* C1: at every point at most one generation request is in flight.
C1_AtMostOneInFlight == BagCardinality(requests) <= 1

\* C2: phase == Success implies that result is non-empty and error is empty.
C2_SuccessHasResultNoError ==
  state.generationState = SUCCESS => state.result # <<>> /\ ~truthy(state.error)

\* C3: phase == Error implies that error is a non-null, non-blank message.
C3_ErrorHasMessage ==
  state.generationState = ERROR => state.error # Null /\ trim(Get(state.error)) # <<>>

\* C3 witness: a provider call threw a value that is no Error and the phase is Error.
C3_Witness == state.generationState = ERROR /\ state.error = Some(MsgUnknown)

\* C4: removing the selected file leaves file unset, prompt == '', result == '' and
\* phase == Idle, from any phase, with and without an API credential.
C4_RemoveResets ==
  [][handleFileRemove =>
       /\ state'.file = Null
       /\ state'.prompt = <<>>
       /\ state'.result = <<>>
       /\ state'.generationState = IDLE]_vars

\* C5: a submit made when no file is selected or the prompt is empty or blank changes
\* neither phase, result, error, file nor prompt, and makes no outbound call.
C5_SubmitNoop ==
  [][((generateClickDisabled \/ handleSubmit)
        /\ (state.file = Null \/ trim(state.prompt) = <<>>))
       => UNCHANGED <<state, requests>>]_vars

\* C5 witness: the generate button was clicked with a file held and a blank prompt.
C5_Witness == ignored /\ state.file # Null /\ state.prompt = <<" ">>

\* C6: after any failure of a file selection or of a submission the phase is Error,
\* error is non-empty and result is ''.
C6_FailureClearsResult ==
  [][((\E files \in Selections : selectionFails(files))
        \/ (\E r \in BagToSet(requests), thrown \in ProviderFailures :
              generateContentRejects(r, thrown)))
       => /\ state'.generationState = ERROR
          /\ truthy(state'.error)
          /\ state'.result = <<>>]_vars

\* C7: with a credential, when the provider call returns text t, the state right after
\* the handler has phase == Success, error empty and result == t.
C7_ProviderTextStored ==
  [][\A r \in BagToSet(requests), t \in Texts :
       generateContentResolves(r, t)
         => /\ state'.generationState = SUCCESS
            /\ ~truthy(state'.error)
            /\ state'.result = t]_vars

\* s contains part (String.prototype.includes)
includes(s, part) ==
  \E i \in 1..(Len(s) + 1) : i + Len(part) - 1 <= Len(s) /\ SubSeq(s, i, i + Len(part) - 1) = part

\* C8: in demo mode a submission that entered Loading ends in Success, never in Error,
\* with a result that contains the submitted file name and the submitted prompt.
C8_DemoEndsInSuccess ==
  [][\A r \in BagToSet(requests) :
       demoTimeout(r)
         => /\ state'.generationState = SUCCESS
            /\ includes(state'.result, r.name)
            /\ includes(state'.result, r.text)]_vars

\* the selections that hold a file over the cap
OverCap == {files \in Selections : \E i \in 1..Len(files) : files[i].size > MAX_SIZE}

\* C9: a selection holding a file over the 10 MiB cap (a document, a directly selected
\* archive, a member of a multi-file selection) fails with a size-exceeded message and
\* leaves file unset.
C9_OverCapRejected ==
  [][\A files \in OverCap :
       selectionEnds(files)
         => /\ state'.file = Null
            /\ state'.error \in {Some(MsgTooLarge)}
                 \cup {Some(MsgOneTooLarge(files[i].name)) : i \in 1..Len(files)}]_vars

\* the selections of a single file that is no archive and has no allowed MIME type
Disallowed ==
  {files \in Selections :
     Len(files) = 1 /\ ~isZip(files[1]) /\ files[1].type \notin allowedTypes}

\* C10 as stated: a single non-archive file with a MIME type outside the allow-list
\* fails with the invalid-type error, whatever its size, and leaves file unset.
C10_InvalidTypeAnySize ==
  [][\A files \in Disallowed :
       handleFileSelect(files)
         => /\ state'.file = Null
            /\ state'.error = Some(MsgInvalidType)]_vars

\* C10 amended: such a file is rejected and leaves file unset; the error is the
\* invalid-type error when the file is within the size cap and the size-exceeded
\* error when it is over the cap.
C10_InvalidTypeWithinCap ==
  [][\A files \in Disallowed :
       handleFileSelect(files)
         => /\ state'.file = Null
            /\ state'.generationState = ERROR
            /\ state'.error =
                 Some(IF files[1].size > MAX_SIZE THEN MsgTooLarge ELSE MsgInvalidType)]_vars

\* C10 witness: a selection was rejected with the invalid-type error.
C10_Witness ==
  state.file = Null /\ state.generationState = ERROR /\ state.error = Some(MsgInvalidType)

\* the suspended submission r finishes: its timer fires or its provider call settles
submissionEnds(r) ==
  \/ demoTimeout(r)
  \/ \E text \in Texts : generateContentResolves(r, text)
  \/ \E thrown \in ProviderFailures : generateContentRejects(r, thrown)

\* C11: between the first write of a handler invocation to the session state and its
\* last write no other handler invocation changes the state: while a submission is
\* suspended between its writes of lines 261-263 and those after its await, the only
\* step that changes the state is the end of that one submission.
C11_RunToCompletion ==
  [][(requests # EmptyBag /\ state' # state)
       => /\ BagCardinality(requests) = 1
          /\ \E r \in BagToSet(requests) : submissionEnds(r)]_vars

\* C15: a selection that succeeds stores the new file record and sets phase Idle,
\* result '' and error empty, whatever the phase, and leaves the prompt unchanged; a
\* selection that fails leaves no file held.
C15_SelectionOutcome ==
  [][/\ \A files \in Readable :
          handleFileSelectResume(files)
            => /\ state'.file = Some(fileRecord(files))
               /\ state'.generationState = IDLE
               /\ state'.result = <<>>
               /\ state'.error = Null
               /\ state'.prompt = state.prompt
     /\ \A files \in Selections : selectionFails(files) => state'.file = Null]_vars

\* C15 witness: a selection succeeded while a submission was in flight: a file is
\* held and the phase is Idle with the request still suspended.
C15_Witness ==
  state.generationState = IDLE /\ state.file # Null /\ requests # EmptyBag

\* C16: in every state with phase Loading, result is '' and error is empty.
C16_LoadingIsCleared ==
  state.generationState = LOADING => state.result = <<>> /\ state.error = Null

\* C16 witness: Loading was entered a second time while the first submission is
\* still in flight.
C16_Witness == state.generationState = LOADING /\ BagCardinality(requests) = 2

\* C17: when a provider call fails and the file and the prompt are those it was
\* submitted with, the file and the prompt stay as they are, the phase is Error and
\* the submit control is enabled.
C17_FailureKeepsInputs ==
  [][\A r \in BagToSet(requests), thrown \in ProviderFailures :
       (generateContentRejects(r, thrown) /\ state.file # Null /\ requestOf(state) = r)
         => /\ state'.file = state.file
            /\ state'.prompt = state.prompt
            /\ state'.generationState = ERROR
            /\ ~dom'.generateDisabled]_vars

\* C17 witness: a provider call failed, the file is still held and the submit control
\* is enabled.
C17_Witness ==
  /\ state.generationState = ERROR
  /\ state.error = Some(MsgProvider)
  /\ state.file # Null
  /\ ~dom.generateDisabled

\* what of the page d can be seen: the body of a hidden result panel cannot
view(d) == [d EXCEPT !.resultDisplay = IF d.resultHidden THEN <<>> ELSE @]

\* C18: after every handler step the visible page equals the page computed from the
\* state alone (the submit control is disabled exactly when no file is held, the
\* prompt is blank or the phase is Loading), and rendering once more changes nothing.
C18_ViewOfState ==
  /\ view(dom) = view(render(state, markup))
  /\ dom.generateDisabled
       = (state.file = Null \/ trim(state.prompt) = <<>> \/ state.generationState = LOADING)
  /\ dom.uploadBoxHidden = (state.file # Null)
  /\ dom.fileDisplayHidden = (state.file = Null)
  /\ dom.spinner = (state.generationState = LOADING)
  /\ render(state, dom) = dom

\* C18 witness: the result panel is hidden and still holds the body of an earlier
\* phase.
C18_Witness == dom.resultHidden /\ dom.resultDisplay # <<>>

\* C19: once the submitted file has been removed or replaced, the end of that
\* submission changes neither phase, result nor error.
C19_LateOutcomeDropped ==
  [][\A r \in BagToSet(requests) :
       (submissionEnds(r) /\ (state.file = Null \/ Get(state.file).base64 # r.data))
         => /\ state'.generationState = state.generationState
            /\ state'.result = state.result
            /\ state'.error = state.error]_vars

\* C12: a submission that enters Loading makes one provider call with a client and
\* none in demo mode, and no other step makes a call: the calls made are as many as
\* the submissions with a client, none without, and never more than the submissions.
C12_OneCallPerSubmission ==
  /\ history.calls = (IF ai THEN history.loads ELSE 0)
  /\ history.calls <= history.loads

\* C12 witness: the one call made has failed and nothing is in flight.
C12_Witness ==
  /\ ai
  /\ history.calls = 1
  /\ state.generationState = ERROR
  /\ state.error = Some(MsgProvider)
  /\ requests = EmptyBag

\* C13: provided the timer fires and the provider call returns or fails, phase Loading
\* is followed by Success or Error, and a suspended submission leaves the requests in
\* flight only by finishing: no user action cancels it.
C13_LoadingEnds ==
  /\ (state.generationState = LOADING) ~> (state.generationState \in {SUCCESS, ERROR})
  /\ [][\A r \in BagToSet(requests) :
          CopiesIn(r, requests') < CopiesIn(r, requests) => submissionEnds(r)]_vars

\* C13 witness: the held file went away (removed, or cleared by a failed selection)
\* while the call was in flight, and the submission still ended in Success.
C13_Witness == ai /\ state.generationState = SUCCESS /\ state.file = Null

\* C14: a folder selection with every file within the cap yields one record of archive
\* type named after the first segment of the first relative path plus '.zip', or
\* 'archive.zip' without relative paths, with phase Idle and, the prompt not being
\* blank, an enabled submit control; with a file over the cap nothing is read and no
\* file is held.
C14_FolderBecomesArchive ==
  [][\A files \in Folders :
       /\ handleFileSelectResume(files)
            => /\ state'.file # Null
               /\ Get(state'.file).type = ZIP_TYPE
               /\ Get(state'.file).name =
                    (IF files[1].webkitRelativePath # <<>>
                       THEN firstSegment(files[1].webkitRelativePath)
                       ELSE <<"archive">>) \o <<".zip">>
               /\ state'.generationState = IDLE
               /\ (trim(state'.prompt) # <<>> => ~dom'.generateDisabled)
       /\ (handleFileSelect(files) /\ files \in OverCap)
            => state'.file = Null /\ reads' = reads]_vars

\* C14 witness: the archive of a folder without relative paths was submitted.
C14_Witness ==
  /\ state.file # Null
  /\ Get(state.file).name = <<"archive", ".zip">>
  /\ state.generationState = LOADING

\* C20: when the selection started last has completed and its file is held, the
\* completion of a selection started before it leaves that file held.
C20_LastStartedWins ==
  [][\A files \in Readable :
       (/\ handleFileSelectResume(files)
        /\ reads' = EmptyBag
        /\ history.newest # Null
        /\ history.newest # Some(files)
        /\ state.file = Some(fileRecord(Get(history.newest))))
         => state'.file = state.file]_vars

====
